---- MODULE Spec2Model ----
(***************************************************************************)
(* A model of binding_energy.py: read_NIST_data (the two text encodings of *)
(* the NIST isotope table), get_mass_number and get_binding_energy.        *)
(*                                                                         *)
(* Text is a sequence of one-character strings, indexed from 0 by the      *)
(* string operators below exactly as Python indexes it.  A stored value is *)
(* a record [type, repr]: a Python str keeps its characters, a Python      *)
(* float keeps the canonical decimal text of the number it denotes.        *)
(* Masses handled by the calculator are fixed-point integers in units of   *)
(* 1e-4 u, energies in units of 1e-4 MeV.                                  *)
(***************************************************************************)
EXTENDS Integers, Sequences, FiniteSets, TLC

VARIABLES
    urlGiven,       \* len(url) > 0
    fnameGiven,     \* len(fname) > 0
    pc,             \* source line read_NIST_data is at, or "returned" / "raised"
    status,         \* web_NIST.getcode(), 0 while no response was obtained
    web_lines,      \* the lines the loop of line 41 has consumed so far
    file_lines,     \* the lines the loop of line 69 has consumed so far
    NIST_dataset,   \* the dictionary of line 27
    printed,        \* what print() has written
    result,         \* what the call handed to its caller
    opened,         \* resources the call has acquired
    released,       \* resources that have been closed
    calc_pc,        \* source line get_binding_energy is at, or "returned" / "raised"
    table,          \* the NIST_dataset handed to get_binding_energy
    norm,           \* its norm argument
    atomic_mass,
    atomic_number,
    mass_number,
    n_neutrons,
    mass_defect,
    bind_energy

parserVars == <<urlGiven, fnameGiven, pc, status, web_lines, file_lines,
                NIST_dataset, printed, result, opened, released>>
calcVars == <<calc_pc, table, norm, atomic_mass, atomic_number, mass_number,
              n_neutrons, mass_defect, bind_energy>>
vars == <<parserVars, calcVars>>

----------------------------------------------------------------------------
(* Bounds of the explored inputs.                                          *)

MaxUrlLines == 2
MaxFileLines == 2
MaxLen == 3

----------------------------------------------------------------------------
(* Python string operations.                                               *)

NotFound == -1

Whitespace == {" ", "\n", "\t", "\r"}

Digits == {"0", "1", "2", "3", "4", "5", "6", "7", "8", "9"}

MinOf(S) == CHOOSE x \in S : \A y \in S : x <= y

\* s.startswith(p)
StartsWith(s, p) == Len(s) >= Len(p) /\ SubSeq(s, 1, Len(p)) = p

\* c in s
Contains(s, c) == \E i \in 1..Len(s) : s[i] = c

\* s.index(c, start), NotFound where Python raises ValueError
IndexFrom(s, c, start) ==
    LET hits == {i \in start..(Len(s) - 1) : s[i + 1] = c}
    IN  IF hits = {} THEN NotFound ELSE MinOf(hits)

\* s[a:b] for 0 <= a, b <= len(s)
Slice(s, a, b) == IF a >= b THEN <<>> ELSE SubSeq(s, a + 1, b)

RECURSIVE LStrip(_)
LStrip(s) == IF s # <<>> /\ Head(s) \in Whitespace THEN LStrip(Tail(s)) ELSE s

RECURSIVE RStrip(_)
RStrip(s) ==
    IF s # <<>> /\ s[Len(s)] \in Whitespace
    THEN RStrip(SubSeq(s, 1, Len(s) - 1))
    ELSE s

\* s.strip()
Strip(s) == RStrip(LStrip(s))

\* s.split(c)
RECURSIVE Split(_, _)
Split(s, c) ==
    LET i == IndexFrom(s, c, 0)
    IN  IF i = NotFound
        THEN <<s>>
        ELSE <<Slice(s, 0, i)>> \o Split(Slice(s, i + 1, Len(s)), c)

TextValue(s) == [type |-> "str", repr |-> s]

FloatValue(s) == [type |-> "float", repr |-> s]

RECURSIVE DropLeadingZeros(_)
DropLeadingZeros(s) ==
    IF Len(s) > 1 /\ Head(s) = "0" THEN DropLeadingZeros(Tail(s)) ELSE s

RECURSIVE DropTrailingZeros(_)
DropTrailingZeros(s) ==
    IF Len(s) > 1 /\ s[Len(s)] = "0"
    THEN DropTrailingZeros(SubSeq(s, 1, Len(s) - 1))
    ELSE s

\* float(s) on decimal text: surrounding whitespace is ignored, the text must
\* be digits with at most one point and at least one digit; ok is FALSE where
\* Python raises ValueError.  val is the number, as canonical decimal text.
ParseFloat(s) ==
    LET t    == Strip(s)
        dot  == IndexFrom(t, ".", 0)
        ip   == IF dot = NotFound THEN t ELSE Slice(t, 0, dot)
        fp   == IF dot = NotFound THEN <<>> ELSE Slice(t, dot + 1, Len(t))
        good == /\ \A i \in 1..Len(ip) : ip[i] \in Digits
                /\ \A i \in 1..Len(fp) : fp[i] \in Digits
                /\ Len(ip) + Len(fp) > 0
        ci   == IF ip = <<>> THEN <<"0">> ELSE DropLeadingZeros(ip)
        cf   == IF fp = <<>> THEN <<"0">> ELSE DropTrailingZeros(fp)
    IN  [ok |-> good, val |-> FloatValue(IF good THEN ci \o <<".">> \o cf ELSE <<>>)]

----------------------------------------------------------------------------
(* The dictionary of read_NIST_data.                                       *)

Labels == <<"Atomic Number", "Atomic Symbol", "Mass Number", "Relative Atomic Mass">>

LabelSet == {Labels[k] : k \in 1..Len(Labels)}

TxtAtomicNumber == <<"A","t","o","m","i","c"," ","N","u","m","b","e","r">>
TxtAtomicSymbol == <<"A","t","o","m","i","c"," ","S","y","m","b","o","l">>
TxtMassNumber == <<"M","a","s","s"," ","N","u","m","b","e","r">>
TxtRelativeAtomicMass ==
    <<"R","e","l","a","t","i","v","e"," ","A","t","o","m","i","c"," ","M","a","s","s">>

\* the characters of a key
LabelText(label) ==
    CASE label = "Atomic Number" -> TxtAtomicNumber
      [] label = "Atomic Symbol" -> TxtAtomicSymbol
      [] label = "Mass Number" -> TxtMassNumber
      [] label = "Relative Atomic Mass" -> TxtRelativeAtomicMass

EmptyDataset == [label \in LabelSet |-> <<>>]

\* line 63, had it assigned the value in place of appending it
AppendTo_assign(ds, label, val) == [ds EXCEPT ![label] = <<val>>]

\* line 63, had it inserted the value at the front
AppendTo_prepend(ds, label, val) == [ds EXCEPT ![label] = <<val>> \o @]

\* NIST_dataset[ label ].append(val)
AppendTo(ds, label, val) == [ds EXCEPT ![label] = Append(@, val)]

----------------------------------------------------------------------------
(* The input lines explored.  A line of the web page or of the file ends   *)
(* in its line terminator.                                                 *)

LineAtomicNumber == TxtAtomicNumber \o <<" ","="," ","1","\n">>
LineAtomicSymbol == TxtAtomicSymbol \o <<" ","="," ","H","\n">>
LineMassNumber == TxtMassNumber \o <<" ","="," ","1","\n">>
LineRelativeAtomicMass ==
    TxtRelativeAtomicMass
        \o <<" ","="," ","1",".","0","0","7","8","2","5","0","3","2","2","3","(","9",")","\n">>
\* a numeric label whose value is no number
LineUnparsable == TxtRelativeAtomicMass \o <<" ","="," ","x","\n">>
\* a parenthesis between the label and the "="
LineParenBeforeEq == TxtAtomicSymbol \o <<" ","(","x",")"," ","="," ","H","(","2",")","\n">>
\* a label with no "=" after it
LineNoEq == TxtAtomicNumber \o <<"\n">>
\* a field that is none of the four
LineOther ==
    <<"I","s","o","t","o","p","i","c"," ","C","o","m","p","o","s","i","t","i","o","n",
      " ","="," ","1","\n">>
\* the record separator of the file encoding
LineBlank == <<"\n">>
\* an unrecognised tag whose value holds a second "="
LineTwoEq == <<"N","o","t","e","s"," ","="," ","a","=","b","\n">>

LinesA == {LineAtomicNumber, LineAtomicSymbol, LineMassNumber, LineRelativeAtomicMass,
           LineUnparsable, LineParenBeforeEq, LineNoEq, LineOther}

LinesB == {LineAtomicNumber, LineAtomicSymbol, LineMassNumber, LineRelativeAtomicMass,
           LineBlank, LineTwoEq, LineOther}

StatusCodes == {200, 204, 206}

----------------------------------------------------------------------------
(* Mode A: one line of the web page, lines 45-63.                          *)

\* id_0: one past the first "=" at or after len(label); NotFound where
\* decoded_line.index raises
Id0(line, label) ==
    LET eq == IndexFrom(line, "=", Len(LabelText(label)))
    IN  IF eq = NotFound THEN NotFound ELSE eq + 1

\* id_1: where the value ends
Id1(line, label) ==
    IF Contains(Slice(line, Id0(line, label), Len(line)), "(")
    THEN IndexFrom(line, "(", Len(LabelText(label)))
    ELSE Len(line)

\* decoded_line[id_0:id_1]
ValueTextA(line, label) == Slice(line, Id0(line, label), Id1(line, label))

\* the value of lines 57-60; ok is FALSE where float() raises
ConvertA(label, text) ==
    IF label = "Atomic Symbol"
    THEN [ok |-> TRUE, val |-> TextValue(text)]
    ELSE ParseFloat(text)

Unchanged(ds) == [raised |-> FALSE, ds |-> ds]

Raised(ds) == [raised |-> TRUE, ds |-> ds]

\* lines 46-63, had a value that is no number been passed over in silence
WebLabelStep_skip(ds, line, label) ==
    IF ~StartsWith(line, LabelText(label)) THEN Unchanged(ds)
    ELSE IF Id0(line, label) = NotFound THEN Raised(ds)
    ELSE LET v == ConvertA(label, ValueTextA(line, label))
         IN  IF v.ok THEN Unchanged([ds EXCEPT ![label] = Append(@, v.val)])
             ELSE Unchanged(ds)

\* the body of "for label in NIST_dataset" for one label
WebLabelStep(ds, line, label) ==
    IF ~StartsWith(line, LabelText(label)) THEN Unchanged(ds)
    ELSE IF Id0(line, label) = NotFound THEN Raised(ds)
    ELSE LET v == ConvertA(label, ValueTextA(line, label))
         IN  IF v.ok THEN Unchanged(AppendTo(ds, label, v.val)) ELSE Raised(ds)

\* the loop over the keys, in dictionary order, from the k-th key on
RECURSIVE WebLabels(_, _, _)
WebLabels(ds, line, k) ==
    IF k > Len(Labels) THEN Unchanged(ds)
    ELSE LET r == WebLabelStep(ds, line, Labels[k])
         IN  IF r.raised THEN r ELSE WebLabels(r.ds, line, k + 1)

----------------------------------------------------------------------------
(* Mode B: one line of the file, lines 70-89.                              *)

\* line 71, had it split at the first "=" only
TagValue_maxsplit(line) ==
    LET i == IndexFrom(line, "=", 0)
    IN  <<Slice(line, 0, i), Slice(line, i + 1, Len(line))>>

\* line.split( '=' )
TagValue(line) == Split(line, "=")

\* the key a stripped tag names, "" when it names none
KeyOf(tag) ==
    IF \E label \in LabelSet : LabelText(label) = tag
    THEN CHOOSE label \in LabelSet : LabelText(label) = tag
    ELSE ""

\* the value of lines 73-76
ValueTextB(part) ==
    LET value == Strip(part)
    IN  IF Contains(value, "(") THEN Split(value, "(")[1] ELSE value

\* lines 70-78
FileLineStep(ds, line) ==
    IF ~Contains(line, "=") THEN Unchanged(ds)
    ELSE LET parts == TagValue(line)
         IN  IF Len(parts) # 2 THEN Raised(ds)
             ELSE LET key == KeyOf(Strip(parts[1]))
                  IN  IF key = "" THEN Unchanged(ds)
                      ELSE Unchanged(AppendTo(ds, key, TextValue(ValueTextB(parts[2]))))

\* line 87, had it read "not any" for "not all"
Inconsistent_any(ds) ==
    LET lengths == [k \in 1..Len(Labels) |-> Len(ds[Labels[k]])]
    IN  ~(\E k \in 1..Len(lengths) : lengths[k] = lengths[1])

\* not all( elem == lengths[0] for elem in lengths )
Inconsistent(ds) ==
    LET lengths == [k \in 1..Len(Labels) |-> Len(ds[Labels[k]])]
    IN  ~(\A k \in 1..Len(lengths) : lengths[k] = lengths[1])

----------------------------------------------------------------------------
(* read_NIST_data.                                                         *)

\* line 37, had it taken every 2xx code for success
BadStatus_not2xx(code) == code < 200 \/ code >= 300

\* web_NIST.getcode() != 200
BadStatus(code) == code # 200

\* The call ends.  Nothing in it closes what it opened: whether a resource
\* is closed once the call is left is up to the runtime's finalizers.
Leave(how, what) ==
    /\ pc' = how
    /\ result' = what
    /\ \E rel \in SUBSET opened : released' = rel

\* lines 27-31: a call starts with a dictionary of its own
Enter(u, f) ==
    /\ urlGiven = u
    /\ fnameGiven = f
    /\ pc = "line34"
    /\ status = 0
    /\ web_lines = <<>>
    /\ file_lines = <<>>
    /\ NIST_dataset = EmptyDataset
    /\ printed = <<>>
    /\ result = "none"
    /\ opened = {}
    /\ released = {}

CalcIdle ==
    /\ calc_pc = "idle"
    /\ table = [AN |-> <<>>, RAM |-> <<>>]
    /\ norm = TRUE
    /\ atomic_mass = <<>>
    /\ atomic_number = <<>>
    /\ mass_number = <<>>
    /\ n_neutrons = <<>>
    /\ mass_defect = <<>>
    /\ bind_energy = <<>>

Init == (\E u, f \in BOOLEAN : Enter(u, f)) /\ CalcIdle

\* line 34, url empty
SkipUrl ==
    /\ pc = "line34" /\ ~urlGiven
    /\ pc' = "line67"
    /\ UNCHANGED calcVars
    /\ UNCHANGED <<urlGiven, fnameGiven, status, web_lines, file_lines, NIST_dataset,
                   printed, result, opened, released>>

\* line 36: urlopen hands back a response
UrlOpen ==
    /\ pc = "line34" /\ urlGiven
    /\ \E code \in StatusCodes : status' = code
    /\ opened' = opened \cup {"web_NIST"}
    /\ pc' = "line37"
    /\ UNCHANGED calcVars
    /\ UNCHANGED <<urlGiven, fnameGiven, web_lines, file_lines, NIST_dataset,
                   printed, result, released>>

\* line 36: urlopen raises (the server cannot be reached, or answers with an
\* error status, which urlopen turns into an exception of its own)
UrlOpenRaises ==
    /\ pc = "line34" /\ urlGiven
    /\ Leave("raised", "exception")
    /\ UNCHANGED calcVars
    /\ UNCHANGED <<urlGiven, fnameGiven, status, web_lines, file_lines, NIST_dataset,
                   printed, opened>>

\* lines 37-39
StatusBad ==
    /\ pc = "line37" /\ BadStatus(status)
    /\ printed' = Append(printed, [msg |-> "ERROR", at |-> status])
    /\ Leave("returned", "-1")
    /\ UNCHANGED calcVars
    /\ UNCHANGED <<urlGiven, fnameGiven, status, web_lines, file_lines, NIST_dataset,
                   opened>>

\* line 37, the status is fine
StatusGood ==
    /\ pc = "line37" /\ ~BadStatus(status)
    /\ pc' = "line41"
    /\ UNCHANGED calcVars
    /\ UNCHANGED <<urlGiven, fnameGiven, status, web_lines, file_lines, NIST_dataset,
                   printed, result, opened, released>>

\* lines 41-63: the next line of the page
WebLine ==
    /\ pc = "line41" /\ Len(web_lines) < MaxUrlLines
    /\ \E line \in LinesA :
         LET r == WebLabels(NIST_dataset, line, 1)
         IN  /\ web_lines' = Append(web_lines, line)
             /\ NIST_dataset' = r.ds
             /\ IF r.raised
                THEN Leave("raised", "exception")
                ELSE UNCHANGED <<pc, result, released>>
    /\ UNCHANGED calcVars
    /\ UNCHANGED <<urlGiven, fnameGiven, status, file_lines, printed, opened>>

\* line 41: the page has no more lines
WebEnd ==
    /\ pc = "line41"
    /\ pc' = "line67"
    /\ UNCHANGED calcVars
    /\ UNCHANGED <<urlGiven, fnameGiven, status, web_lines, file_lines, NIST_dataset,
                   printed, result, opened, released>>

\* line 67, fname empty, then line 91
SkipFile ==
    /\ pc = "line67" /\ ~fnameGiven
    /\ Leave("returned", "NIST_dataset")
    /\ UNCHANGED calcVars
    /\ UNCHANGED <<urlGiven, fnameGiven, status, web_lines, file_lines, NIST_dataset,
                   printed, opened>>

\* line 69: open( fname )
FileOpen ==
    /\ pc = "line67" /\ fnameGiven
    /\ opened' = opened \cup {"file"}
    /\ pc' = "line69"
    /\ UNCHANGED calcVars
    /\ UNCHANGED <<urlGiven, fnameGiven, status, web_lines, file_lines, NIST_dataset,
                   printed, result, released>>

\* lines 69-89: the next line of the file
FileLine ==
    /\ pc = "line69" /\ Len(file_lines) < MaxFileLines
    /\ \E line \in LinesB :
         LET r == FileLineStep(NIST_dataset, line)
         IN  /\ file_lines' = Append(file_lines, line)
             /\ NIST_dataset' = r.ds
             /\ IF r.raised
                THEN Leave("raised", "exception") /\ UNCHANGED printed
                ELSE /\ UNCHANGED <<pc, result, released>>
                     /\ printed' =
                          IF line = LineBlank /\ Inconsistent(r.ds)
                          THEN Append(printed, [msg |-> "WARNING", at |-> Len(file_lines) + 1])
                          ELSE printed
    /\ UNCHANGED calcVars
    /\ UNCHANGED <<urlGiven, fnameGiven, status, web_lines, opened>>

\* line 69: the file has no more lines, then line 91
FileEnd ==
    /\ pc = "line69"
    /\ Leave("returned", "NIST_dataset")
    /\ UNCHANGED calcVars
    /\ UNCHANGED <<urlGiven, fnameGiven, status, web_lines, file_lines, NIST_dataset,
                   printed, opened>>

\* the caller calls read_NIST_data again
Call ==
    /\ pc \in {"returned", "raised"}
    /\ \E u, f \in BOOLEAN :
         /\ urlGiven' = u
         /\ fnameGiven' = f
    /\ pc' = "line34"
    /\ status' = 0
    /\ web_lines' = <<>>
    /\ file_lines' = <<>>
    /\ NIST_dataset' = EmptyDataset
    /\ printed' = <<>>
    /\ result' = "none"
    /\ opened' = {}
    /\ released' = {}
    /\ UNCHANGED calcVars

Next ==
    \/ SkipUrl
    \/ UrlOpen
    \/ UrlOpenRaises
    \/ StatusBad
    \/ StatusGood
    \/ WebLine
    \/ WebEnd
    \/ SkipFile
    \/ FileOpen
    \/ FileLine
    \/ FileEnd
    \/ Call

Spec == Init /\ [][Next]_vars

----------------------------------------------------------------------------
(* get_mass_number and get_binding_energy.  An array is a sequence; the    *)
(* entries of 'Relative Atomic Mass' are masses in units of 1e-4 u, those  *)
(* of 'Atomic Number' are whole numbers.                                   *)

\* atomic mass unit in MeV/c^2, truncated to whole MeV
amu == 931
\* masses of particle, in units of 1e-4 u
neutron_u == 10087
proton_u == 10073
electron_u == 5

\* one mass unit, in units of 1e-4 u
Unit == 10000

AtomicNumbers == {1, 2}

\* hydrogen-1 and helium-4
AtomicMasses == {10078, 40026}

SeqsUpTo(S, n) == UNION {[1..k -> S] : k \in 0..n}

\* np.around of one entry: the nearest whole number, a tie to the even one
Around(x) ==
    LET q == x \div Unit
        r == x % Unit
    IN  IF 2 * r > Unit \/ (2 * r = Unit /\ q % 2 = 1) THEN q + 1 ELSE q

\* lines 109-112
get_mass_number(t) == [i \in 1..Len(t.RAM) |-> Around(t.RAM[i])]

\* the shape numpy gives an elementwise operation on two one-dimensional
\* arrays of lengths m and n: equal lengths pair up, a length of 1 is
\* stretched to the other length, anything else raises ValueError (NotFound)
BroadcastLen(m, n) ==
    IF m = n THEN m
    ELSE IF m = 1 THEN n
    ELSE IF n = 1 THEN m
    ELSE NotFound

\* entry i of an array stretched to a broadcast shape
At(a, i) == IF Len(a) = 1 THEN a[1] ELSE a[i]

\* line 140: mass_number - atomic_number
Neutrons(mn, an) ==
    [i \in 1..BroadcastLen(Len(mn), Len(an)) |-> At(mn, i) - At(an, i)]

\* line 141
MassDefect(nn, an, am) ==
    [i \in 1..BroadcastLen(Len(nn), Len(am)) |->
        ((At(nn, i) * neutron_u + At(an, i) * proton_u + At(an, i) * electron_u)
            - At(am, i)) * amu]

\* line 144: mass_defect/mass_number
Normalized(md, mn) ==
    [i \in 1..BroadcastLen(Len(md), Len(mn)) |-> At(md, i) \div At(mn, i)]

ParserIdle == Enter(FALSE, FALSE)

CalcInit ==
    /\ ParserIdle
    /\ calc_pc = "line137"
    /\ table \in [AN : SeqsUpTo(AtomicNumbers, MaxLen), RAM : SeqsUpTo(AtomicMasses, MaxLen)]
    /\ norm \in BOOLEAN
    /\ atomic_mass = <<>>
    /\ atomic_number = <<>>
    /\ mass_number = <<>>
    /\ n_neutrons = <<>>
    /\ mass_defect = <<>>
    /\ bind_energy = <<>>

\* lines 137-138: np.asarray
AsArrays ==
    /\ calc_pc = "line137"
    /\ atomic_mass' = table.RAM
    /\ atomic_number' = table.AN
    /\ calc_pc' = "line139"
    /\ UNCHANGED <<table, norm, mass_number, n_neutrons, mass_defect, bind_energy>>
    /\ UNCHANGED parserVars

\* line 139
MassNumber ==
    /\ calc_pc = "line139"
    /\ mass_number' = get_mass_number(table)
    /\ calc_pc' = "line140"
    /\ UNCHANGED <<table, norm, atomic_mass, atomic_number, n_neutrons, mass_defect,
                   bind_energy>>
    /\ UNCHANGED parserVars

\* line 140, the shapes broadcast
NeutronCount ==
    /\ calc_pc = "line140"
    /\ BroadcastLen(Len(mass_number), Len(atomic_number)) # NotFound
    /\ n_neutrons' = Neutrons(mass_number, atomic_number)
    /\ calc_pc' = "line141"
    /\ UNCHANGED <<table, norm, atomic_mass, atomic_number, mass_number, mass_defect,
                   bind_energy>>
    /\ UNCHANGED parserVars

\* line 140, the shapes do not broadcast: numpy raises ValueError
ShapeError ==
    /\ calc_pc = "line140"
    /\ BroadcastLen(Len(mass_number), Len(atomic_number)) = NotFound
    /\ calc_pc' = "raised"
    /\ UNCHANGED <<table, norm, atomic_mass, atomic_number, mass_number, n_neutrons,
                   mass_defect, bind_energy>>
    /\ UNCHANGED parserVars

\* line 141
Defect ==
    /\ calc_pc = "line141"
    /\ mass_defect' = MassDefect(n_neutrons, atomic_number, atomic_mass)
    /\ calc_pc' = "line143"
    /\ UNCHANGED <<table, norm, atomic_mass, atomic_number, mass_number, n_neutrons,
                   bind_energy>>
    /\ UNCHANGED parserVars

\* lines 143-144 and 148
ReturnNormalized ==
    /\ calc_pc = "line143" /\ norm
    /\ bind_energy' = Normalized(mass_defect, mass_number)
    /\ calc_pc' = "returned"
    /\ UNCHANGED <<table, norm, atomic_mass, atomic_number, mass_number, n_neutrons,
                   mass_defect>>
    /\ UNCHANGED parserVars

\* lines 145-146 and 148
ReturnDefect ==
    /\ calc_pc = "line143" /\ ~norm
    /\ bind_energy' = mass_defect
    /\ calc_pc' = "returned"
    /\ UNCHANGED <<table, norm, atomic_mass, atomic_number, mass_number, n_neutrons,
                   mass_defect>>
    /\ UNCHANGED parserVars

CalcNext ==
    \/ AsArrays
    \/ MassNumber
    \/ NeutronCount
    \/ ShapeError
    \/ Defect
    \/ ReturnNormalized
    \/ ReturnDefect

SpecCalc == CalcInit /\ [][CalcNext]_vars

----------------------------------------------------------------------------
(* What the consumed input says, read off the lines themselves.            *)

NumericLabels == LabelSet \ {"Atomic Symbol"}

AllFieldsEmpty == \A label \in LabelSet : NIST_dataset[label] = <<>>

ReturnedTable == pc = "returned" /\ result = "NIST_dataset"

CountEq(line) == Cardinality({i \in 1..Len(line) : line[i] = "="})

\* a page line that begins with the label and has an "=" after it
CarriesA(line, label) ==
    StartsWith(line, LabelText(label)) /\ Id0(line, label) # NotFound

\* a file line whose tag, the text before its first "=", is the label
CarriesB(line, label) ==
    /\ CountEq(line) >= 1
    /\ Strip(Slice(line, 0, IndexFrom(line, "=", 0))) = LabelText(label)

\* the text after the first "=" of a file line
AfterEq(line) == Slice(line, IndexFrom(line, "=", 0) + 1, Len(line))

\* the values the first n page lines give a field, in line order
RECURSIVE PageValues(_, _)
PageValues(label, n) ==
    IF n = 0 THEN <<>>
    ELSE IF CarriesA(web_lines[n], label)
         THEN Append(PageValues(label, n - 1),
                     ConvertA(label, ValueTextA(web_lines[n], label)).val)
         ELSE PageValues(label, n - 1)

\* the values the first n file lines give a field, in line order
RECURSIVE FileValues(_, _)
FileValues(label, n) ==
    IF n = 0 THEN <<>>
    ELSE IF CarriesB(file_lines[n], label)
         THEN Append(FileValues(label, n - 1),
                     TextValue(ValueTextB(AfterEq(file_lines[n]))))
         ELSE FileValues(label, n - 1)

\* how often the consumed input carries a field
Occurrences(label) ==
    Cardinality({i \in DOMAIN web_lines : CarriesA(web_lines[i], label)})
        + Cardinality({i \in DOMAIN file_lines : CarriesB(file_lines[i], label)})

\* the length of a field's sequence when file line i is reached
LengthBefore(label, i) ==
    Cardinality({j \in DOMAIN web_lines : CarriesA(web_lines[j], label)})
        + Cardinality({j \in 1..(i - 1) : CarriesB(file_lines[j], label)})

Warned(i) == \E k \in DOMAIN printed : printed[k] = [msg |-> "WARNING", at |-> i]

\* the value text as the uncertainty rule words it: from just after the "="
\* to just before the first "(" that follows, or to the end of the line
TextToParen(line, start) ==
    LET paren == IndexFrom(line, "(", start)
    IN  Slice(line, start, IF paren = NotFound THEN Len(line) ELSE paren)

RECURSIVE RulePageValues(_, _)
RulePageValues(label, n) ==
    IF n = 0 THEN <<>>
    ELSE IF CarriesA(web_lines[n], label)
         THEN Append(RulePageValues(label, n - 1),
                     ConvertA(label, TextToParen(web_lines[n], Id0(web_lines[n], label))).val)
         ELSE RulePageValues(label, n - 1)

RECURSIVE RuleFileValues(_, _)
RuleFileValues(label, n) ==
    IF n = 0 THEN <<>>
    ELSE IF CarriesB(file_lines[n], label)
         THEN Append(RuleFileValues(label, n - 1),
                     TextValue(TextToParen(Strip(AfterEq(file_lines[n])), 0)))
         ELSE RuleFileValues(label, n - 1)

----------------------------------------------------------------------------
(* The claims.                                                             *)

\* C1 as stated: whenever read_NIST_data returns a table, the four field
\* sequences all have the same length, whatever the input lines were.
C1_EqualLengths ==
    ReturnedTable =>
        \A l1, l2 \in LabelSet : Len(NIST_dataset[l1]) = Len(NIST_dataset[l2])

\* C1 amended: whenever read_NIST_data returns a table, each field sequence is
\* exactly as long as the number of consumed lines that carry that field, so
\* the four lengths agree exactly when the input carries the four fields
\* equally often.
C1_LengthIsOccurrences ==
    ReturnedTable =>
        \A label \in LabelSet : Len(NIST_dataset[label]) = Occurrences(label)

\* a table with one complete record is returned
C1_Witness ==
    ReturnedTable /\ \A label \in LabelSet : Len(NIST_dataset[label]) = 1

C3_WarningIffRagged ==
    \A i \in DOMAIN file_lines :
        file_lines[i] = LineBlank =>
            /\ Warned(i) <=>
                 \E l1, l2 \in LabelSet : LengthBefore(l1, i) # LengthBefore(l2, i)
            /\ i = Len(file_lines) => pc \in {"line69", "returned"}
            /\ pc = "returned" => result = "NIST_dataset"
            /\ \A j \in (i + 1)..Len(file_lines) :
                 \A label \in LabelSet :
                    (CountEq(file_lines[j]) = 1 /\ CarriesB(file_lines[j], label)) =>
                        Len(NIST_dataset[label]) >= LengthBefore(label, j) + 1

\* the page gave one field only: the blank line that opens the file is
\* warned about, the field after it is appended, and the table is returned
C3_Witness ==
    /\ ReturnedTable
    /\ web_lines = <<LineAtomicNumber>>
    /\ file_lines = <<LineBlank, LineAtomicSymbol>>
    /\ Warned(1)
    /\ Len(NIST_dataset["Atomic Symbol"]) = 1

\* C4: a page line that begins with a numeric label and whose value text is
\* no number ends the call with a raised error: it is the last line consumed,
\* nothing was appended for it, the file is not read, no table is returned.
C4_MalformedRaises ==
    \A i \in DOMAIN web_lines :
        \A label \in NumericLabels :
            (/\ CarriesA(web_lines[i], label)
             /\ ~ParseFloat(ValueTextA(web_lines[i], label)).ok) =>
                /\ i = Len(web_lines)
                /\ pc = "raised"
                /\ result = "exception"
                /\ file_lines = <<>>
                /\ \A f \in LabelSet : NIST_dataset[f] = PageValues(f, i - 1)

\* a good line, then a line whose mass is no number
C4_Witness ==
    /\ pc = "raised"
    /\ web_lines = <<LineAtomicNumber, LineUnparsable>>
    /\ Len(NIST_dataset["Atomic Number"]) = 1

\* C5 as stated: get_binding_energy raises, and gets no further than its
\* first elementwise operation, whenever 'Atomic Number' and 'Relative Atomic
\* Mass' differ in length.
C5_RaggedRaises ==
    Len(table.AN) # Len(table.RAM) =>
        calc_pc \in {"idle", "line137", "line139", "line140", "raised"}

\* C6 as stated: a call that has returned or raised has released every
\* resource it opened.
C6_AllReleased ==
    pc \in {"returned", "raised"} => opened \subseteq released

\* C7 as stated: every stored value is the text from just after the "=" to
\* just before the first "(" that follows it (else to the end of the line),
\* converted as its field requires; no labelled page line with such a value
\* is refused.
C7_UncertaintyRemoved ==
    /\ pc # "raised" =>
         \A label \in LabelSet :
            NIST_dataset[label] =
                RulePageValues(label, Len(web_lines)) \o RuleFileValues(label, Len(file_lines))
    /\ (pc = "raised" /\ web_lines # <<>> /\ file_lines = <<>>) =>
         LET line == web_lines[Len(web_lines)]
         IN  \A label \in LabelSet :
                CarriesA(line, label) =>
                    ~ConvertA(label, TextToParen(line, Id0(line, label))).ok

\* C8: a field's sequence is the values of the page lines, in line order,
\* followed by the values of the file lines, in line order, at every point
\* of the call; a call starts from an empty table.
C8_Concatenation ==
    /\ pc = "line34" => AllFieldsEmpty
    /\ pc # "raised" =>
         \A label \in LabelSet :
            NIST_dataset[label] =
                PageValues(label, Len(web_lines)) \o FileValues(label, Len(file_lines))

\* both sources gave an atomic number: the page's float first, the file's
\* text second
C8_Witness ==
    /\ ReturnedTable /\ urlGiven /\ fnameGiven /\ status = 200
    /\ Len(NIST_dataset["Atomic Number"]) = 2
    /\ NIST_dataset["Atomic Number"][1].type = "float"
    /\ NIST_dataset["Atomic Number"][2].type = "str"

\* C9 as stated: a symbol appended from a page line has no leading or
\* trailing whitespace.
C9_SymbolTrimmed ==
    pc # "raised" =>
        \A k \in 1..Len(PageValues("Atomic Symbol", Len(web_lines))) :
            LET v == NIST_dataset["Atomic Symbol"][k]
            IN  Strip(v.repr) = v.repr

\* C10: a file line with two or more "=" ends the call with a raised error
\* before anything is appended for it, recognised tag or not, and no table is
\* returned; a file line with exactly one "=" never raises.
C10_TwoEqualsRaises ==
    /\ \A i \in DOMAIN file_lines :
         CountEq(file_lines[i]) >= 2 =>
            /\ i = Len(file_lines)
            /\ pc = "raised"
            /\ result = "exception"
            /\ \A label \in LabelSet :
                 NIST_dataset[label] =
                    PageValues(label, Len(web_lines)) \o FileValues(label, i - 1)
    /\ (pc = "raised" /\ file_lines # <<>>) =>
         CountEq(file_lines[Len(file_lines)]) >= 2

\* a field appended, then a line with an unrecognised tag and two "="
C10_Witness ==
    /\ pc = "raised"
    /\ file_lines = <<LineAtomicNumber, LineTwoEq>>
    /\ Len(NIST_dataset["Atomic Number"]) = 1

====
